---- MODULE Spec2Model ----
(***************************************************************************)
(* A model of scripts/migrate_to_multiauthor.py: the frontmatter reader    *)
(* (parse_yaml_frontmatter), the schema converter (convert_to_multiauthor),*)
(* the writer (format_yaml_value, write_yaml_frontmatter), migrate_file    *)
(* and the batch loop of main.                                             *)
(*                                                                         *)
(* A Python str is a sequence of one-character strings.  A frontmatter     *)
(* value is a tagged record [t |-> "str" | "list" | "authors", v |-> ...]. *)
(* A dict is the sequence of its [key, val] entries in insertion order.    *)
(***************************************************************************)
EXTENDS Integers, Sequences, FiniteSets, TLC

VARIABLES
    files,      \* the grant files in name order, each [name, content]
    args_file,  \* whether --file was given (files is then that one file)
    dry_run,    \* args.dry_run of the current invocation
    pc,         \* position of main: "loop", "file", "done" or "raised"
    idx,        \* index of the next file of the loop at main line 237
    migrated,   \* main's counter
    skipped,    \* main's counter
    runs,       \* invocations of the script so far
    calls       \* history: per file, the locals of each migrate_file call made on it

vars == <<files, args_file, dry_run, pc, idx, migrated, skipped, runs, calls>>

-----------------------------------------------------------------------------
(* Python str operations, on sequences of characters *)

\* str.strip() strips whitespace
IsSpace(c) == c \in {" ", "\t", "\n", "\r", "\f"}

\* \d of the re module
IsDigit(c) == c \in {"0", "1", "2", "3", "4", "5", "6", "7", "8", "9"}

\* s[i-1:].startswith(p), i counted from 1
StartsWithAt(s, p, i) ==
    /\ i + Len(p) - 1 <= Len(s)
    /\ \A k \in 1..Len(p) : s[i + k - 1] = p[k]

startswith(s, p) == StartsWithAt(s, p, 1)

endswith(s, p) == Len(p) <= Len(s) /\ StartsWithAt(s, p, Len(s) - Len(p) + 1)

Least(S) == CHOOSE j \in S : \A k \in S : j <= k
Greatest(S) == CHOOSE j \in S : \A k \in S : j >= k
LeastOr0(S) == IF S = {} THEN 0 ELSE Least(S)

\* s.find(p, i-1) + 1: the first place at or after i where p occurs, 0 if none
find(s, p, i) == LeastOr0({j \in i..(Len(s) - Len(p) + 1) : StartsWithAt(s, p, j)})

\* p in s
contains(s, p) == find(s, p, 1) # 0

\* ''.join(ss[lo-1:hi])
RECURSIVE FlattenRange(_, _, _)
FlattenRange(ss, lo, hi) ==
    IF lo > hi THEN <<>>
    ELSE IF lo = hi THEN ss[lo]
    ELSE FlattenRange(ss, lo, (lo + hi) \div 2) \o FlattenRange(ss, (lo + hi) \div 2 + 1, hi)

\* ''.join(ss)
Flatten(ss) == FlattenRange(ss, 1, Len(ss))

\* s.split(sep), j being the first place of sep in s (0 if none)
RECURSIVE SplitAt(_, _, _)
SplitAt(s, sep, j) ==
    IF j = 0 THEN <<s>>
    ELSE <<SubSeq(s, 1, j - 1)>>
         \o SplitAt(SubSeq(s, j + Len(sep), Len(s)), sep,
                    find(SubSeq(s, j + Len(sep), Len(s)), sep, 1))

\* s.split(sep)
split(s, sep) == SplitAt(s, sep, find(s, sep, 1))

\* s[i-1:j] for the set of places to keep, all of s[i-1:j] being kept
Span(s, kept) == IF kept = {} THEN <<>> ELSE SubSeq(s, Least(kept), Greatest(kept))

\* s.strip(): from the first to the last character that is not whitespace
strip(s) == Span(s, {i \in 1..Len(s) : ~IsSpace(s[i])})

\* s.rstrip(';')
rstripSemi(s) ==
    IF \A i \in 1..Len(s) : s[i] = ";" THEN <<>>
    ELSE SubSeq(s, 1, Greatest({i \in 1..Len(s) : s[i] # ";"}))

\* s.partition(':'): <<before, after>> around the first colon, at place j (0 if none)
PartitionAt(s, j) ==
    IF j = 0 THEN <<s, <<>>>> ELSE <<SubSeq(s, 1, j - 1), SubSeq(s, j + 1, Len(s))>>

partition(s) == PartitionAt(s, find(s, <<":">>, 1))

\* s.replace(c, new) for a one-character c
replace(s, c, new) == Flatten([i \in 1..Len(s) |-> IF s[i] = c THEN new ELSE <<s[i]>>])

\* sep.join(pieces)
join(sep, pieces) ==
    Flatten([i \in 1..Len(pieces) |-> IF i = 1 THEN pieces[i] ELSE sep \o pieces[i]])

\* [p.strip() for p in pieces]
StripAll(pieces) == [i \in 1..Len(pieces) |-> strip(pieces[i])]

-----------------------------------------------------------------------------
(* Values and dicts *)

Str(s) == [t |-> "str", v |-> s]
List(items) == [t |-> "list", v |-> items]
Authors(as) == [t |-> "authors", v |-> as]

IsStr(x) == x.t = "str"
IsList(x) == x.t = "list"

\* Python truth of a str or a list
Truthy(x) == x.v # <<>>

\* key in data
Has(data, key) == \E i \in 1..Len(data) : data[i].key = key

\* data[key], for a key in data
Get(data, key) == data[CHOOSE i \in 1..Len(data) : data[i].key = key].val

\* data.get(key, default)
GetOr(data, key, default) == IF Has(data, key) THEN Get(data, key) ELSE default

\* data[key] = val: an existing key keeps its place
Put(data, key, val) ==
    IF Has(data, key)
    THEN [i \in 1..Len(data) |->
            IF data[i].key = key THEN [key |-> key, val |-> val] ELSE data[i]]
    ELSE Append(data, [key |-> key, val |-> val])

Keys(data) == [i \in 1..Len(data) |-> data[i].key]

-----------------------------------------------------------------------------
(* parse_yaml_frontmatter *)

\* re.match(r'^---\n(.*?)\n---', content, re.DOTALL): the place of the closing
\* "\n---", the first one at or after the end of the opening "---\n"; 0 if no match
FrontmatterEnd(content) ==
    IF startswith(content, <<"-","-","-","\n">>) THEN find(content, <<"\n","-","-","-">>, 5) ELSE 0

\* A reader that leaves the quotes around a value
Unquote_KeepsQuotes(raw) == raw

\* lines 57-60: the quotes around a value are removed
Unquote(raw) ==
    IF startswith(raw, <<"\"">>) /\ endswith(raw, <<"\"">>) THEN SubSeq(raw, 2, Len(raw) - 1)
    ELSE IF startswith(raw, <<"'">>) /\ endswith(raw, <<"'">>) THEN SubSeq(raw, 2, Len(raw) - 1)
    ELSE raw

\* lines 62-70: an empty value starts a list
SetKey(st, key, value) ==
    IF value = <<>>
    THEN [data |-> Put(st.data, key, List(<<>>)), current_key |-> key, has_list |-> TRUE]
    ELSE [data |-> Put(st.data, key, Str(value)), current_key |-> key, has_list |-> FALSE]

ParsePartition(st, kv) == SetKey(st, strip(kv[1]), Unquote(strip(kv[2])))

\* lines 51-70: a line holding a colon
ParseKeyValue(st, line) == ParsePartition(st, partition(line))

\* lines 42-43, 46-47: current_list.append(item); current_list is data[current_key]
AppendItem(st, item) ==
    IF st.has_list
    THEN [st EXCEPT !.data =
            Put(st.data, st.current_key, List(Append(Get(st.data, st.current_key).v, item)))]
    ELSE st

\* lines 36-70: the body of the loop over the lines
ParseLine(st, line) ==
    IF strip(line) = <<>> THEN st
    ELSE IF startswith(line, <<" "," ","-"," ">>) THEN AppendItem(st, strip(SubSeq(line, 5, Len(line))))
    ELSE IF startswith(line, <<"-"," ">>) THEN AppendItem(st, strip(SubSeq(line, 3, Len(line))))
    ELSE IF contains(line, <<":">>) THEN ParseKeyValue(st, line)
    ELSE st

RECURSIVE ParseLines(_, _)
ParseLines(st, lines) ==
    IF lines = <<>> THEN st ELSE ParseLines(ParseLine(st, Head(lines)), Tail(lines))

\* lines 24-72, the closing "\n---" being at place j (0: no match)
ParseAt(content, j) ==
    IF j = 0 THEN [found |-> FALSE, data |-> <<>>, remainder |-> content]
    ELSE [found |-> TRUE,
          data |-> ParseLines([data |-> <<>>, current_key |-> <<>>, has_list |-> FALSE],
                              split(SubSeq(content, 5, j - 1), <<"\n">>)).data,
          remainder |-> SubSeq(content, j + 4, Len(content))]

\* [found, data, remainder]; found = FALSE is the (None, content) return
parse_yaml_frontmatter(content) == ParseAt(content, FrontmatterEnd(content))

-----------------------------------------------------------------------------
(* format_yaml_value *)

\* line 79: the value needs quoting
NeedsQuoting(s) ==
    \/ contains(s, <<":">>)
    \/ contains(s, <<"#">>)
    \/ startswith(s, <<"\"">>)
    \/ contains(s, <<"\n">>)

\* line 81: value.replace('\\', '\\\\').replace('"', '\\"')
Escape(s) == replace(replace(s, "\\", <<"\\","\\">>), "\"", <<"\\","\"">>)

\* lines 77-85: a str is quoted when needed, a list is returned as it is
format_yaml_value(value) ==
    IF IsStr(value)
    THEN IF NeedsQuoting(value.v) THEN Str(<<"\"">> \o Escape(value.v) \o <<"\"">>) ELSE value
    ELSE value

\* repr(s) of a str: the quote it is put in
ReprQuote(s) == IF contains(s, <<"'">>) /\ ~contains(s, <<"\"">>) THEN "\"" ELSE "'"

\* repr(s) of a str: one character of it, in the quote q
ReprChar(c, q) ==
    IF c = q \/ c = "\\" THEN <<"\\", c>>
    ELSE IF c = "\n" THEN <<"\\","n">>
    ELSE IF c = "\t" THEN <<"\\","t">>
    ELSE IF c = "\r" THEN <<"\\","r">>
    ELSE <<c>>

\* repr(s) of a str, as an f-string prints the items of a list
PyReprStr(s) ==
    <<ReprQuote(s)>>
    \o Flatten([i \in 1..Len(s) |-> ReprChar(s[i], ReprQuote(s))])
    \o <<ReprQuote(s)>>

\* f'{x}' of what format_yaml_value returned: a str as it is, a list by its repr
FString(x) ==
    IF IsStr(x) THEN x.v
    ELSE <<"[">> \o join(<<","," ">>, [i \in 1..Len(x.v) |-> PyReprStr(x.v[i])]) \o <<"]">>

-----------------------------------------------------------------------------
(* convert_to_multiauthor *)

\* re.search(r', (?:Jr\.|Sr\.|III|IV|PhD|MD)', author_str)
SuffixGuard(s) ==
    \E i \in 1..Len(s) :
        \E suffix \in {<<","," ","J","r",".">>, <<","," ","S","r",".">>, <<","," ","I","I","I">>, <<","," ","I","V">>, <<","," ","P","h","D">>, <<","," ","M","D">>} :
            StartsWithAt(s, suffix, i)

\* A split on ", " that has no suffix guard
ParseAuthorNames_NoGuard(author_str) ==
    IF contains(author_str, <<" ","a","n","d"," ">>)
    THEN StripAll(split(author_str, <<" ","a","n","d"," ">>))
    ELSE IF contains(author_str, <<","," ">>)
    THEN StripAll(split(author_str, <<","," ">>))
    ELSE <<strip(author_str)>>

\* lines 104-110, for an author that is a str
ParseAuthorNames(author_str) ==
    IF contains(author_str, <<" ","a","n","d"," ">>)
    THEN StripAll(split(author_str, <<" ","a","n","d"," ">>))
    ELSE IF contains(author_str, <<","," ">>) /\ ~SuffixGuard(author_str)
    THEN StripAll(split(author_str, <<","," ">>))
    ELSE <<strip(author_str)>>

\* the length of a match of https?://orcid\.org/ at place i of s, 0 if none
UrlMatchLen(s, i) ==
    IF StartsWithAt(s, <<"h","t","t","p",":","/","/","o","r","c","i","d",".","o","r","g","/">>, i) THEN Len(<<"h","t","t","p",":","/","/","o","r","c","i","d",".","o","r","g","/">>)
    ELSE IF StartsWithAt(s, <<"h","t","t","p","s",":","/","/","o","r","c","i","d",".","o","r","g","/">>, i) THEN Len(<<"h","t","t","p","s",":","/","/","o","r","c","i","d",".","o","r","g","/">>)
    ELSE 0

\* place i of s is in a match; two matches never overlap, a match holding the letter
\* h at its start only
InUrlMatch(s, i) ==
    \E j \in (i - Len(<<"h","t","t","p","s",":","/","/","o","r","c","i","d",".","o","r","g","/">>) + 1)..i : j >= 1 /\ i < j + UrlMatchLen(s, j)

\* re.sub(r'https?://orcid\.org/', '', orcid_str)
StripOrcidUrl(s) == Flatten([i \in 1..Len(s) |-> IF InUrlMatch(s, i) THEN <<>> ELSE <<s[i]>>])

\* [o.strip().rstrip(';') for o in pieces if o.strip()]
StripNonBlank(pieces) ==
    Flatten([i \in 1..Len(pieces) |->
                IF strip(pieces[i]) # <<>> THEN <<rstripSemi(strip(pieces[i]))>> ELSE <<>>])

\* lines 118-125: the pieces of an ORCID str, its URL prefixes already removed
SplitOrcids(orcid_str) ==
    IF contains(orcid_str, <<" ","a","n","d"," ">>)
    THEN StripAll(split(orcid_str, <<" ","a","n","d"," ">>))
    ELSE IF contains(orcid_str, <<";">>)
    THEN StripNonBlank(split(orcid_str, <<";">>))
    ELSE IF contains(orcid_str, <<",">>)
    THEN StripAll(split(orcid_str, <<",">>))
    ELSE <<strip(orcid_str)>>

\* lines 113-125, for an ORCID that is a str
ParseOrcids(orcid_str) ==
    IF orcid_str = <<>> THEN <<>> ELSE SplitOrcids(StripOrcidUrl(orcid_str))

\* ^\d{4}-\d{4}-\d{4}-\d{4}[X]?$ up to the end of s
OrcidShape(s) ==
    /\ Len(s) \in {19, 20}
    /\ \A i \in 1..19 : IF i \in {5, 10, 15} THEN s[i] = "-" ELSE IsDigit(s[i])
    /\ Len(s) = 20 => s[20] = "X"

\* re.match(r'^\d{4}-\d{4}-\d{4}-\d{4}[X]?$', orcid); $ also matches before a last newline
ValidOrcid(orcid) ==
    \/ OrcidShape(orcid)
    \/ orcid # <<>> /\ orcid[Len(orcid)] = "\n" /\ OrcidShape(SubSeq(orcid, 1, Len(orcid) - 1))

\* An author that takes its ORCID piece without the format check
BuildAuthor_Unvalidated(i, name, orcids, institution) ==
    ("name" :> name)
    @@ (IF i = 1 /\ Truthy(institution) THEN ("institution" :> institution) ELSE <<>>)
    @@ (IF i <= Len(orcids) /\ orcids[i] # <<>>
        THEN ("orcid" :> strip(orcids[i])) ELSE <<>>)

\* An author that takes the institution whatever its index
BuildAuthor_InstitutionOnAll(i, name, orcids, institution) ==
    ("name" :> name)
    @@ (IF Truthy(institution) THEN ("institution" :> institution) ELSE <<>>)
    @@ (IF i <= Len(orcids) /\ orcids[i] # <<>> /\ ValidOrcid(strip(orcids[i]))
        THEN ("orcid" :> strip(orcids[i])) ELSE <<>>)

\* lines 130-143: the author at index i of the loop (i counted from 1)
BuildAuthor(i, name, orcids, institution) ==
    ("name" :> name)
    @@ (IF i = 1 /\ Truthy(institution) THEN ("institution" :> institution) ELSE <<>>)
    @@ (IF i <= Len(orcids) /\ orcids[i] # <<>> /\ ValidOrcid(strip(orcids[i]))
        THEN ("orcid" :> strip(orcids[i])) ELSE <<>>)

\* line 151
PassThroughKeys ==
    <<<<"y","e","a","r">>, <<"f","u","n","d","e","r">>, <<"p","r","o","g","r","a","m">>, <<"d","i","s","c","i","p","l","i","n","e">>, <<"s","t","a","t","u","s">>, <<"l","i","n","k">>, <<"l","i","n","k","_","n","a","m","e">>>>

\* A copy that keeps a field that is present but empty
CopyField_KeepsEmpty(new_data, data, key) ==
    IF Has(data, key) THEN Put(new_data, key, Get(data, key)) ELSE new_data

\* lines 152-153 for one key
CopyField(new_data, data, key) ==
    IF Has(data, key) /\ Truthy(Get(data, key))
    THEN Put(new_data, key, Get(data, key)) ELSE new_data

\* lines 151-153
RECURSIVE CopyFields(_, _, _)
CopyFields(new_data, data, keys) ==
    IF keys = <<>> THEN new_data
    ELSE CopyFields(CopyField(new_data, data, Head(keys)), data, Tail(keys))

\* An operation on a list where a str is expected raises (AttributeError at lines
\* 105 and 110, TypeError at lines 106 and 116)
ConvertRaises(data) ==
    /\ ~Has(data, <<"a","u","t","h","o","r","s">>)
    /\ Has(data, <<"a","u","t","h","o","r">>)
    /\ \/ IsList(Get(data, <<"a","u","t","h","o","r">>))
       \/ /\ Has(data, <<"O","R","C","I","D">>)
          /\ IsList(Get(data, <<"O","R","C","I","D">>))
          /\ Truthy(Get(data, <<"O","R","C","I","D">>))

\* lines 128-143
BuildAuthors(author_names, orcids, institution) ==
    [i \in 1..Len(author_names) |-> BuildAuthor(i, author_names[i], orcids, institution)]

\* lines 146-148
NewBlock(data, authors) ==
    << [key |-> <<"l","a","y","o","u","t">>, val |-> GetOr(data, <<"l","a","y","o","u","t">>, Str(<<"g","r","a","n","t">>))],
       [key |-> <<"t","i","t","l","e">>, val |-> GetOr(data, <<"t","i","t","l","e">>, Str(<<>>))],
       [key |-> <<"a","u","t","h","o","r","s">>, val |-> Authors(authors)] >>

\* lines 99-155: the conversion of a block with a str author and a str (or empty) ORCID
ConvertedBlock(data) ==
    CopyFields(
        NewBlock(data,
                 BuildAuthors(ParseAuthorNames(Get(data, <<"a","u","t","h","o","r">>).v),
                              ParseOrcids(GetOr(data, <<"O","R","C","I","D">>, Str(<<>>)).v),
                              GetOr(data, <<"i","n","s","t","i","t","u","t","i","o","n">>, Str(<<>>)))),
        data, PassThroughKeys)

\* A converter without the check of line 92
convert_to_multiauthor_NoAuthorsCheck(data) ==
    IF ~Has(data, <<"a","u","t","h","o","r">>) THEN [raised |-> FALSE, data |-> data, changed |-> FALSE]
    ELSE IF IsList(Get(data, <<"a","u","t","h","o","r">>)) THEN [raised |-> TRUE, data |-> data, changed |-> FALSE]
    ELSE [raised |-> FALSE, data |-> ConvertedBlock(data), changed |-> TRUE]

\* [raised, data, changed]
convert_to_multiauthor(data) ==
    IF Has(data, <<"a","u","t","h","o","r","s">>) THEN [raised |-> FALSE, data |-> data, changed |-> FALSE]
    ELSE IF ~Has(data, <<"a","u","t","h","o","r">>) THEN [raised |-> FALSE, data |-> data, changed |-> FALSE]
    ELSE IF ConvertRaises(data) THEN [raised |-> TRUE, data |-> data, changed |-> FALSE]
    ELSE [raised |-> FALSE, data |-> ConvertedBlock(data), changed |-> TRUE]

-----------------------------------------------------------------------------
(* write_yaml_frontmatter *)

\* lines 166-170: the lines of one author
AuthorLines(author) ==
    <<<<" "," ","-"," ","n","a","m","e",":"," ">> \o FString(format_yaml_value(Str(author["name"])))>>
    \o (IF "orcid" \in DOMAIN author
        THEN <<<<" "," "," "," ","o","r","c","i","d",":"," ">> \o author["orcid"]>> ELSE <<>>)
    \o (IF "institution" \in DOMAIN author
        THEN <<<<" "," "," "," ","i","n","s","t","i","t","u","t","i","o","n",":"," ">> \o FString(format_yaml_value(author["institution"]))>>
        ELSE <<>>)

\* lines 165-170
AllAuthorLines(authors) == Flatten([i \in 1..Len(authors) |-> AuthorLines(authors[i])])

\* line 174
ItemLine(item) == <<" "," ","-"," ">> \o FString(format_yaml_value(Str(item)))

\* A writer that names the authors list by the legacy key
EntryLines_LegacyKey(entry) ==
    IF entry.key = <<"a","u","t","h","o","r","s">>
    THEN <<<<"a","u","t","h","o","r",":">>>> \o AllAuthorLines(entry.val.v)
    ELSE IF IsList(entry.val)
    THEN <<entry.key \o <<":">>>> \o [i \in 1..Len(entry.val.v) |-> ItemLine(entry.val.v[i])]
    ELSE <<entry.key \o <<":"," ">> \o FString(format_yaml_value(entry.val))>>

\* lines 163-176: the lines of one key
EntryLines(entry) ==
    IF entry.key = <<"a","u","t","h","o","r","s">>
    THEN <<<<"a","u","t","h","o","r","s",":">>>> \o AllAuthorLines(entry.val.v)
    ELSE IF IsList(entry.val)
    THEN <<entry.key \o <<":">>>> \o [i \in 1..Len(entry.val.v) |-> ItemLine(entry.val.v[i])]
    ELSE <<entry.key \o <<":"," ">> \o FString(format_yaml_value(entry.val))>>

\* lines 162-176
AllEntryLines(data) == Flatten([i \in 1..Len(data) |-> EntryLines(data[i])])

\* lines 160-178: the frontmatter block, from the opening to the closing ---
FrontmatterText(data) ==
    join(<<"\n">>, <<<<"-","-","-">>>> \o AllEntryLines(data) \o <<<<"-","-","-">>>>)

\* A writer that puts a line break of its own after the closing ---
write_yaml_frontmatter_OwnNewline(data, remainder) ==
    FrontmatterText(data) \o <<"\n">> \o remainder

\* line 179
write_yaml_frontmatter(data, remainder) == FrontmatterText(data) \o remainder

-----------------------------------------------------------------------------
(* migrate_file *)

\* lines 184-209: the locals of a call at its end.  outcome is "no_frontmatter" (line
\* 190), "unchanged" (line 196), "would_migrate" (line 203), "migrated" (line 209) or
\* "raised" (an exception left convert_to_multiauthor); written is the content of
\* the file when the call ends.
MigrateOutcome(found, conv, dry) ==
    IF ~found THEN "no_frontmatter"
    ELSE IF conv.raised THEN "raised"
    ELSE IF ~conv.changed THEN "unchanged"
    ELSE IF dry THEN "would_migrate"
    ELSE "migrated"

MigrateLocals(content, dry, parsed, conv, outcome, new_content) ==
    [content |-> content,
     dry |-> dry,
     found |-> parsed.found,
     data |-> parsed.data,
     remainder |-> parsed.remainder,
     new_data |-> IF outcome \in {"no_frontmatter", "raised"} THEN <<>> ELSE conv.data,
     changed |-> conv.changed /\ parsed.found,
     new_content |-> new_content,
     outcome |-> outcome,
     written |-> IF outcome = "migrated" THEN new_content ELSE content]

\* line 198 is reached only with changed = True
MigrateConverted(content, dry, parsed, conv) ==
    MigrateLocals(content, dry, parsed, conv, MigrateOutcome(parsed.found, conv, dry),
                  IF parsed.found /\ conv.changed
                  THEN write_yaml_frontmatter(conv.data, parsed.remainder) ELSE <<>>)

MigrateParsed(content, dry, parsed) ==
    MigrateConverted(content, dry, parsed, convert_to_multiauthor(parsed.data))

migrate_file(content, dry) ==
    MigrateParsed(content, dry, parse_yaml_frontmatter(content))

-----------------------------------------------------------------------------
(* Bounds and inputs *)

NumFiles == 2           \* files of the _grants directory in batch mode
MaxRuns == 2            \* invocations of the script
MaxAuthorTokens == 3    \* pieces an author value is put together from
MaxValueLen == 3        \* characters of a pass-through value

\* All sequences over S of length at most n
SeqsUpTo(S, n) == UNION {[1..k -> S] : k \in 0..n}

\* A document: frontmatter lines between the delimiters, then the rest of the file
Doc(lines, rest) ==
    join(<<"\n">>, <<<<"-","-","-">>>> \o Flatten([i \in 1..Len(lines) |-> IF lines[i] = <<>> THEN <<>> ELSE <<lines[i]>>]) \o <<<<"-","-","-">>>>) \o rest

OrcidA == <<"0","0","0","0","-","0","0","0","1","-","2","3","4","5","-","6","7","8","9">>
OrcidB == <<"0","0","0","0","-","0","0","0","2","-","3","4","5","6","-","7","8","9","0","X">>

AuthorTokens == {<<"A">>, <<" ","a","n","d"," ">>, <<","," ">>, <<"J","r",".">>}
AuthorValues == {Flatten(ss) : ss \in SeqsUpTo(AuthorTokens, MaxAuthorTokens)}

\* "" stands for a line that is absent
AuthorLines1 ==
    {<<>>, <<"a","u","t","h","o","r",":"," ","J","a","n","e"," ","D","o","e"," ","a","n","d"," ","J","o","h","n"," ","S","m","i","t","h">>, <<"a","u","t","h","o","r",":"," ","A",","," ","B",","," ","C">>, <<"a","u","t","h","o","r",":"," ","S","m","i","t","h",","," ","J","r",".">>,
     <<"a","u","t","h","o","r",":"," ","A"," ","a","n","d"," "," ","a","n","d"," ","B">>, <<"a","u","t","h","o","r",":"," ","A",","," ",","," ","B">>, <<"a","u","t","h","o","r",":"," ","\"","\"">>}
OrcidLines ==
    {<<>>,
     <<"O","R","C","I","D",":"," ">> \o OrcidA,
     <<"O","R","C","I","D",":"," ">> \o OrcidA \o <<" ","a","n","d"," ">> \o OrcidB,
     <<"O","R","C","I","D",":"," ","h","t","t","p","s",":","/","/","o","r","c","i","d",".","o","r","g","/">> \o OrcidA \o <<";","n","o","t","-","a","n","-","i","d",";",";">> \o OrcidB \o <<";">>,
     <<"O","R","C","I","D",":"," ","n","o","t","-","a","n","-","i","d",","," ","h","t","t","p",":","/","/","o","r","c","i","d",".","o","r","g","/">> \o OrcidB \o <<",">> \o OrcidA \o <<",">> \o OrcidA,
     <<"O","R","C","I","D",":"," ">> \o OrcidA \o <<"0"," ","a","n","d"," "," ","a","n","d"," ">> \o OrcidB,
     <<"O","R","C","I","D",":"," ","0","0","0","0","-","0","0","0","2","-","1","6","9","4","-","2","3","3","X"," ","a","n","d"," ">> \o OrcidB \o <<"X">>,
     <<"O","R","C","I","D",":","\n"," "," ","-"," ">> \o OrcidA}
InstitutionLines == {<<>>, <<"i","n","s","t","i","t","u","t","i","o","n",":"," ","A","c","m","e"," ","U">>, <<"i","n","s","t","i","t","u","t","i","o","n",":","\n"," "," ","-"," ","U","'","s">>, <<"i","n","s","t","i","t","u","t","i","o","n",":">>}
ExtraLines ==
    {<<>>,
     <<"a","u","t","h","o","r","s",":","\n"," "," ","-"," ","n","a","m","e",":"," ","Z">>,
     <<"l","a","y","o","u","t",":"," ","p","a","g","e","\n","t","i","t","l","e",":"," ","\"","T",":"," ","x","\"","\n","l","i","n","k","_","n","a","m","e",":"," ","L","\n","y","e","a","r",":"," ","2","0","2","0","\n","e","x","t","r","a",":"," ","x","\n","l","i","n","k",":">>,
     <<"s","t","a","t","u","s",":","\n"," "," ","-"," ","s","1","\n","-"," ","s","2","\n","f","u","n","d","e","r",":"," ","F"," ","#"," ","1","\n","k","e","y","w","o","r","d","s",":","\n"," "," ","-"," ","k","\n","t","i","t","l","e",":","\n">>}
Remainders == {<<>>, <<"\n">>, <<"-","\n","\n","B","o","d","y","\n","-","-","-","\n","m","o","r","e">>, <<"\n","-","-","-","\n","a","u","t","h","o","r","s",":","\n","-","-","-","\n">>}

\* The files given with --file
FileInputs ==
    {Doc(<<<<"a","u","t","h","o","r",":"," ">> \o a>>, <<"\n">>) : a \in AuthorValues}
    \cup {Doc(<<a, o, i, e>>, <<"\n","B","o","d","y","\n">>) :
            a \in AuthorLines1, o \in OrcidLines, i \in InstitutionLines, e \in ExtraLines}
    \cup {Doc(<<a, e>>, r) : a \in AuthorLines1, e \in ExtraLines, r \in Remainders}

ValueChars == {"a", " ", ":", "#", "\"", "'", "\\"}
RawValues == SeqsUpTo(ValueChars, MaxValueLen)
ScalarKeys == {<<"l","a","y","o","u","t">>, <<"t","i","t","l","e">>} \cup {PassThroughKeys[i] : i \in 1..Len(PassThroughKeys)}

\* Files with one pass-through field of any text
RoundTripInputs ==
    {Doc(<<<<"a","u","t","h","o","r",":"," ","A">>, <<"t","i","t","l","e",":"," ">> \o v>>, <<"\n">>) : v \in RawValues}
    \cup {Doc(<<k \o <<":"," ">> \o v, <<"a","u","t","h","o","r",":"," ","A"," ","a","n","d"," ","B">>>>, <<"\n","B","o","d","y">>) :
            k \in ScalarKeys,
            v \in {<<"a",":","'","b","'">>, <<"\"","a","\\","\"","b"," ","#","1","\"">>, <<"'","a"," ","b","'">>, <<"\""," ","a","\"">>, <<"\"","'","a","'","\"">>, <<"\"","\"","a",":"," ","b","\"","\"">>}}

\* The contents of the files of a batch
BatchContents ==
    {<<"#"," ","N","o"," ","f","r","o","n","t","m","a","t","t","e","r","\n">>,
     <<"-","-","-","\n","t","i","t","l","e",":"," ","T","\n","-","-","-","\n","B","o","d","y">>,
     <<"-","-","-","\n","a","u","t","h","o","r","s",":","\n"," "," ","-"," ","n","a","m","e",":"," ","A","\n","a","u","t","h","o","r",":"," ","A","\n","-","-","-","\n">>,
     <<"-","-","-","\n","a","u","t","h","o","r",":"," ","A"," ","a","n","d"," ","B","\n","O","R","C","I","D",":"," ">> \o OrcidA \o <<"\n","i","n","s","t","i","t","u","t","i","o","n",":"," ","U","\n","y","e","a","r",":"," ","2","0","2","0","\n","-","-","-","\n","B","o","d","y","\n","-","-","-","\n","m","o","r","e">>,
     <<"-","-","-","\n","a","u","t","h","o","r",":","\n","-","-","-","\n">>,
     <<"-","-","-","\n","a","u","t","h","o","r",":"," ","A","\n","O","R","C","I","D",":","\n"," "," ","-"," ","x","\n","-","-","-","\n">>,
     <<"-","-","-","\n","t","i","t","l","e",":"," ","'","T","'","\n","a","u","t","h","o","r",":"," ","A",","," ","J","r",".","\n","i","n","s","t","i","t","u","t","i","o","n",":","\n"," "," ","-"," ","U","\n","-","-","-","-">>}

\* sorted(grants_dir.glob('*.md')): the names in order
NamePool == <<<<"a",".","m","d">>, <<"b",".","m","d">>, <<"t","e","s","t","_","c",".","m","d">>>>
NameChoices ==
    {ns \in [1..NumFiles -> 1..Len(NamePool)] : \A i \in 1..(NumFiles - 1) : ns[i] < ns[i + 1]}

-----------------------------------------------------------------------------
(* main *)

InitCommon ==
    /\ dry_run \in BOOLEAN
    /\ idx = 1
    /\ migrated = 0
    /\ skipped = 0
    /\ runs = 1
    /\ calls = [i \in 1..Len(files) |-> <<>>]

\* Batch mode
Init ==
    /\ files \in {[i \in 1..NumFiles |-> [name |-> NamePool[ns[i]], content |-> cs[i]]] :
                    ns \in NameChoices, cs \in [1..NumFiles -> BatchContents]}
    /\ args_file = FALSE
    /\ pc = "loop"
    /\ InitCommon

\* --file mode
InitFile ==
    /\ files \in {<<[name |-> <<"a",".","m","d">>, content |-> c]>> : c \in FileInputs}
    /\ args_file = TRUE
    /\ pc = "file"
    /\ InitCommon

InitRoundTrip ==
    /\ files \in {<<[name |-> <<"a",".","m","d">>, content |-> c]>> : c \in RoundTripInputs}
    /\ args_file = TRUE
    /\ pc = "file"
    /\ InitCommon

\* migrate_file returned True
ReturnedTrue(r) == r.outcome \in {"would_migrate", "migrated"}

\* the call migrate_file(files[i], dry_run): the file and the history after it
Called(i, r) ==
    /\ files' = [files EXCEPT ![i].content = r.written]
    /\ calls' = [calls EXCEPT ![i] = Append(@, r)]

\* lines 239-242
MainSkipTest ==
    /\ pc = "loop"
    /\ idx <= Len(files)
    /\ startswith(files[idx].name, <<"t","e","s","t","_">>)
    /\ skipped' = skipped + 1
    /\ idx' = idx + 1
    /\ UNCHANGED <<files, args_file, dry_run, pc, migrated, runs, calls>>

\* lines 244-247 once migrate_file has ended with the locals r
MainMigrated(r) ==
    /\ Called(idx, r)
    /\ IF r.outcome = "raised"
       THEN pc' = "raised" /\ UNCHANGED <<idx, migrated, skipped>>
       ELSE /\ pc' = pc
            /\ idx' = idx + 1
            /\ migrated' = IF ReturnedTrue(r) THEN migrated + 1 ELSE migrated
            /\ skipped' = IF ReturnedTrue(r) THEN skipped ELSE skipped + 1

\* lines 244-247; an exception leaving migrate_file ends the process
MainMigrate ==
    /\ pc = "loop"
    /\ idx <= Len(files)
    /\ ~startswith(files[idx].name, <<"t","e","s","t","_">>)
    /\ MainMigrated(migrate_file(files[idx].content, dry_run))
    /\ UNCHANGED <<args_file, dry_run, runs>>

\* line 249
MainSummary ==
    /\ pc = "loop"
    /\ idx > Len(files)
    /\ pc' = "done"
    /\ UNCHANGED <<files, args_file, dry_run, idx, migrated, skipped, runs, calls>>

\* line 231 once migrate_file has ended with the locals r
MainFiled(r) ==
    /\ Called(1, r)
    /\ pc' = IF r.outcome = "raised" THEN "raised" ELSE "done"

\* lines 226-231
MainFile ==
    /\ pc = "file"
    /\ MainFiled(migrate_file(files[1].content, dry_run))
    /\ UNCHANGED <<args_file, dry_run, idx, migrated, skipped, runs>>

\* The script is run again with the same file arguments, dry or not
Invoke ==
    /\ pc \in {"done", "raised"}
    /\ runs < MaxRuns
    /\ runs' = runs + 1
    /\ dry_run' \in BOOLEAN
    /\ pc' = IF args_file THEN "file" ELSE "loop"
    /\ idx' = 1
    /\ migrated' = 0
    /\ skipped' = 0
    /\ UNCHANGED <<files, args_file, calls>>

Next == MainSkipTest \/ MainMigrate \/ MainSummary \/ Invoke

NextFile == MainFile \/ Invoke

Spec == Init /\ [][Next]_vars

SpecFile == InitFile /\ [][NextFile]_vars

SpecRoundTrip == InitRoundTrip /\ [][NextFile]_vars

-----------------------------------------------------------------------------
(* The claims.  A call is a record of the history calls. *)

Converted(c) == c.outcome \in {"would_migrate", "migrated"}
AuthorsOf(c) == Get(c.new_data, <<"a","u","t","h","o","r","s">>).v
AuthorValueOf(c) == Get(c.data, <<"a","u","t","h","o","r">>).v

\* C1: a block that holds `authors`, or that holds neither `author` nor `authors`, is
\* returned as it is with changed = False; migrate_file then returns False and the
\* file keeps its content.
C1_NotApplicableIsLeftAlone ==
    \A i \in DOMAIN calls : \A n \in 1..Len(calls[i]) :
        (/\ calls[i][n].found
         /\ Has(calls[i][n].data, <<"a","u","t","h","o","r","s">>) \/ ~Has(calls[i][n].data, <<"a","u","t","h","o","r">>))
        => /\ calls[i][n].outcome = "unchanged"
           /\ ~calls[i][n].changed
           /\ calls[i][n].new_data = calls[i][n].data
           /\ ~ReturnedTrue(calls[i][n])
           /\ calls[i][n].written = calls[i][n].content
           /\ (n = Len(calls[i]) => files[i].content = calls[i][n].content)

C1_Witness ==
    \E i \in DOMAIN calls : \E n \in 1..Len(calls[i]) :
        /\ Has(calls[i][n].data, <<"a","u","t","h","o","r","s">>)
        /\ Has(calls[i][n].data, <<"a","u","t","h","o","r">>)
        /\ Has(calls[i][n].data, <<"O","R","C","I","D">>)
        /\ Has(calls[i][n].data, <<"i","n","s","t","i","t","u","t","i","o","n">>)
        /\ ~calls[i][n].dry
        /\ calls[i][n].outcome = "unchanged"

\* C2: no exception leaves migrate_file: every call ends migrated or skipped, main
\* never stops on an exception, and a finished batch has counted every file.
C2_NeverAborts ==
    /\ pc # "raised"
    /\ \A i \in DOMAIN calls : \A n \in 1..Len(calls[i]) : calls[i][n].outcome # "raised"
    /\ pc = "done" => migrated + skipped = Len(files)

\* The place of the closing delimiter of a document that has a frontmatter block
C3_ClosingDelimiter(content) ==
    CHOOSE j \in 5..Len(content) :
        /\ StartsWithAt(content, <<"\n","-","-","-">>, j)
        /\ \A k \in 5..(j - 1) : ~StartsWithAt(content, <<"\n","-","-","-">>, k)

C3_InputSuffix(content) ==
    SubSeq(content, C3_ClosingDelimiter(content) + 4, Len(content))

C3_BlockThenSuffix(text, block, suffix) ==
    /\ text = block \o suffix
    /\ endswith(block, <<"\n","-","-","-">>)
    /\ startswith(block, <<"-","-","-","\n">>)

\* C3: the text written for a converted document is the new frontmatter block, which
\* ends with the closing ---, followed by exactly the characters that came after the
\* closing --- of the input.
C3_RemainderPreserved ==
    \A i \in DOMAIN calls : \A n \in 1..Len(calls[i]) :
        Converted(calls[i][n])
        => C3_BlockThenSuffix(calls[i][n].new_content,
                              FrontmatterText(calls[i][n].new_data),
                              C3_InputSuffix(calls[i][n].content))

C3_Witness ==
    \E i \in DOMAIN calls : \E n \in 1..Len(calls[i]) :
        /\ calls[i][n].outcome = "migrated"
        /\ contains(C3_InputSuffix(calls[i][n].content), <<"\n","-","-","-","\n">>)
        /\ startswith(C3_InputSuffix(calls[i][n].content), <<"-">>)
        /\ files[i].content = calls[i][n].new_content

\* C4: once a call has migrated a file, every later call on it finds a frontmatter
\* block that holds `authors`, reports no change and leaves the file byte-identical,
\* so the file keeps the content of the first migration.
C4_RerunIsNoOp ==
    \A i \in DOMAIN calls : \A n \in 1..Len(calls[i]) :
        calls[i][n].outcome = "migrated"
        => /\ \A m \in (n + 1)..Len(calls[i]) :
                /\ calls[i][m].content = calls[i][n].written
                /\ calls[i][m].found
                /\ Has(calls[i][m].data, <<"a","u","t","h","o","r","s">>)
                /\ calls[i][m].outcome = "unchanged"
                /\ calls[i][m].written = calls[i][n].written
           /\ files[i].content = calls[i][n].written

C4_Witness ==
    \E i \in DOMAIN calls :
        /\ Len(calls[i]) >= 2
        /\ calls[i][1].outcome = "migrated"
        /\ calls[i][1].written # calls[i][1].content
        /\ ~calls[i][2].dry
        /\ Len(AuthorsOf(calls[i][1])) >= 2

\* ^\d{4}-\d{4}-\d{4}-\d{4}X?$
C5_MatchesPattern(s) ==
    /\ \/ Len(s) = 19
       \/ Len(s) = 20 /\ s[20] = "X"
    /\ \A i \in {1, 2, 3, 4, 6, 7, 8, 9, 11, 12, 13, 14, 16, 17, 18, 19} : IsDigit(s[i])
    /\ \A i \in {5, 10, 15} : s[i] = "-"

C5_Paired(authors, names, orcids) ==
    /\ Len(authors) = Len(names)
    /\ \A i \in 1..Len(authors) :
        /\ authors[i]["name"] = names[i]
        /\ "orcid" \in DOMAIN authors[i] <=> (i <= Len(orcids) /\ C5_MatchesPattern(orcids[i]))
        /\ "orcid" \in DOMAIN authors[i] => authors[i]["orcid"] = orcids[i]

\* C5: after a conversion there is one author per piece of the split author value, in
\* that order, and the author at index i has the i-th piece of the split ORCID value
\* as its orcid exactly when that piece exists and matches the pattern.
C5_PairedByPosition ==
    \A i \in DOMAIN calls : \A n \in 1..Len(calls[i]) :
        Converted(calls[i][n])
        => C5_Paired(AuthorsOf(calls[i][n]),
                     ParseAuthorNames(AuthorValueOf(calls[i][n])),
                     ParseOrcids(GetOr(calls[i][n].data, <<"O","R","C","I","D">>, Str(<<>>)).v))

C5_Witness ==
    \E i \in DOMAIN calls : \E n \in 1..Len(calls[i]) :
        /\ Converted(calls[i][n])
        /\ Len(AuthorsOf(calls[i][n])) = 2
        /\ Has(calls[i][n].data, <<"O","R","C","I","D">>)
        /\ "orcid" \notin DOMAIN AuthorsOf(calls[i][n])[1]
        /\ "orcid" \in DOMAIN AuthorsOf(calls[i][n])[2]
        /\ AuthorsOf(calls[i][n])[2]["orcid"] = OrcidB
        /\ Len(ParseOrcids(Get(calls[i][n].data, <<"O","R","C","I","D">>).v)) = 4

\* C6: every author of a converted block has a non-empty name.
C6_NamesNonEmpty ==
    \A i \in DOMAIN calls : \A n \in 1..Len(calls[i]) :
        Converted(calls[i][n])
        => \A a \in 1..Len(AuthorsOf(calls[i][n])) : AuthorsOf(calls[i][n])[a]["name"] # <<>>

C7_FirstOnly(authors, institution) ==
    /\ Truthy(institution)
        => /\ "institution" \in DOMAIN authors[1]
           /\ authors[1]["institution"] = institution
    /\ ~Truthy(institution) => "institution" \notin DOMAIN authors[1]
    /\ \A a \in 2..Len(authors) : "institution" \notin DOMAIN authors[a]

\* C7: after a conversion a non-empty institution is on the first author and on no
\* other, an absent or empty one is on none, and the block has no institution key.
C7_InstitutionOnFirstOnly ==
    \A i \in DOMAIN calls : \A n \in 1..Len(calls[i]) :
        Converted(calls[i][n])
        => /\ C7_FirstOnly(AuthorsOf(calls[i][n]),
                           GetOr(calls[i][n].data, <<"i","n","s","t","i","t","u","t","i","o","n">>, Str(<<>>)))
           /\ ~Has(calls[i][n].new_data, <<"i","n","s","t","i","t","u","t","i","o","n">>)

C7_Witness ==
    \E i \in DOMAIN calls : \E n \in 1..Len(calls[i]) :
        /\ Converted(calls[i][n])
        /\ Len(AuthorsOf(calls[i][n])) = 3
        /\ Has(calls[i][n].data, <<"i","n","s","t","i","t","u","t","i","o","n">>)
        /\ Get(calls[i][n].data, <<"i","n","s","t","i","t","u","t","i","o","n">>) = Str(<<"A","c","m","e"," ","U">>)
        /\ AuthorsOf(calls[i][n])[1]["institution"] = Str(<<"A","c","m","e"," ","U">>)

C8_AllowList ==
    <<<<"y","e","a","r">>, <<"f","u","n","d","e","r">>, <<"p","r","o","g","r","a","m">>, <<"d","i","s","c","i","p","l","i","n","e">>, <<"s","t","a","t","u","s">>, <<"l","i","n","k">>, <<"l","i","n","k","_","n","a","m","e">>>>

C8_Present(data, key) == Has(data, key) /\ Get(data, key).v # <<>>

C8_Copied(data) ==
    Flatten([i \in 1..Len(C8_AllowList) |->
                IF C8_Present(data, C8_AllowList[i]) THEN <<C8_AllowList[i]>> ELSE <<>>])

C8_Shape(data, new_data) ==
    /\ Keys(new_data) = <<<<"l","a","y","o","u","t">>, <<"t","i","t","l","e">>, <<"a","u","t","h","o","r","s">>>> \o C8_Copied(data)
    /\ Get(new_data, <<"l","a","y","o","u","t">>) = GetOr(data, <<"l","a","y","o","u","t">>, Str(<<"g","r","a","n","t">>))
    /\ Get(new_data, <<"t","i","t","l","e">>) = GetOr(data, <<"t","i","t","l","e">>, Str(<<>>))
    /\ \A k \in 4..Len(new_data) : new_data[k].val = Get(data, new_data[k].key)

\* C8: the keys of a converted block are layout, title, authors and then those of year,
\* funder, program, discipline, status, link, link_name that are present and non-empty
\* in the original, in that order; layout defaults to grant and title to the empty
\* string; every copied field has the original's value; no other key is kept.
C8_AllowListedInOrder ==
    \A i \in DOMAIN calls : \A n \in 1..Len(calls[i]) :
        Converted(calls[i][n]) => C8_Shape(calls[i][n].data, calls[i][n].new_data)

C8_Witness ==
    \E i \in DOMAIN calls : \E n \in 1..Len(calls[i]) :
        /\ Converted(calls[i][n])
        /\ Has(calls[i][n].data, <<"e","x","t","r","a">>)
        /\ Has(calls[i][n].data, <<"l","i","n","k">>)
        /\ Has(calls[i][n].data, <<"O","R","C","I","D">>)
        /\ Keys(calls[i][n].new_data)
             = <<<<"l","a","y","o","u","t">>, <<"t","i","t","l","e">>, <<"a","u","t","h","o","r","s">>, <<"y","e","a","r">>, <<"l","i","n","k","_","n","a","m","e">>>>

\* a comma followed by a space and one of Jr., Sr., III, IV, PhD, MD
C9_HasSuffix(s) ==
    \/ contains(s, <<","," ","J","r",".">>) \/ contains(s, <<","," ","S","r",".">>) \/ contains(s, <<","," ","I","I","I">>)
    \/ contains(s, <<","," ","I","V">>) \/ contains(s, <<","," ","P","h","D">>) \/ contains(s, <<","," ","M","D">>)

C9_Names(authors) == [a \in 1..Len(authors) |-> authors[a]["name"]]

C9_Rule(value, names) ==
    /\ contains(value, <<" ","a","n","d"," ">>) => names = StripAll(split(value, <<" ","a","n","d"," ">>))
    /\ (~contains(value, <<" ","a","n","d"," ">>) /\ contains(value, <<","," ">>) /\ ~C9_HasSuffix(value))
        => names = StripAll(split(value, <<","," ">>))
    /\ (~contains(value, <<" ","a","n","d"," ">>) /\ ~(contains(value, <<","," ">>) /\ ~C9_HasSuffix(value)))
        => names = <<strip(value)>>
    /\ value = <<"S","m","i","t","h",","," ","J","r",".">> => names = <<<<"S","m","i","t","h",","," ","J","r",".">>>>

\* C9: an author value holding " and " is split on it; otherwise one holding ", " and no
\* comma-space-suffix is split on ", "; otherwise the whole trimmed value is the one
\* name (so "Smith, Jr." is one author); the pieces are trimmed.
C9_ThreeWaySplit ==
    \A i \in DOMAIN calls : \A n \in 1..Len(calls[i]) :
        Converted(calls[i][n])
        => C9_Rule(AuthorValueOf(calls[i][n]), C9_Names(AuthorsOf(calls[i][n])))

C9_Witness ==
    \E i \in DOMAIN calls : \E n \in 1..Len(calls[i]) :
        /\ Converted(calls[i][n])
        /\ AuthorValueOf(calls[i][n]) = <<"S","m","i","t","h",","," ","J","r",".">>
        /\ Len(AuthorsOf(calls[i][n])) = 1

C10_Keys ==
    {<<"l","a","y","o","u","t">>, <<"t","i","t","l","e">>, <<"y","e","a","r">>, <<"f","u","n","d","e","r">>, <<"p","r","o","g","r","a","m">>, <<"d","i","s","c","i","p","l","i","n","e">>, <<"s","t","a","t","u","s">>,
     <<"l","i","n","k">>, <<"l","i","n","k","_","n","a","m","e">>}

C10_Scalar(data, k) == Has(data, k) /\ IsStr(Get(data, k)) /\ Get(data, k).v # <<>>

C10_Same(before, after, k) == Has(after, k) /\ Get(after, k) = Get(before, k)

\* C10 as stated: every non-empty scalar pass-through value of a migrated document is
\* read back from the written file as the same string.
C10_EveryValueSurvives ==
    \A i \in DOMAIN calls : \A n \in 1..(Len(calls[i]) - 1) :
        calls[i][n].outcome = "migrated"
        => \A k \in C10_Keys :
            C10_Scalar(calls[i][n].data, k)
            => C10_Same(calls[i][n].data, calls[i][n + 1].data, k)

\* The values the writer and the reader together leave as they are
C10_Plain(v) ==
    \/ /\ contains(v, <<":">>) \/ contains(v, <<"#">>)
       /\ ~contains(v, <<"\"">>)
       /\ ~contains(v, <<"\\">>)
    \/ /\ ~contains(v, <<":">>)
       /\ ~contains(v, <<"#">>)
       /\ ~startswith(v, <<"\"">>)
       /\ ~IsSpace(v[1])
       /\ ~IsSpace(v[Len(v)])
       /\ ~(v[1] = "'" /\ v[Len(v)] = "'")

\* C10, amended: a non-empty scalar pass-through value of a migrated document is read
\* back from the written file as the same string when it holds : or # and neither a
\* double quote nor a backslash, or when it holds neither : nor #, does not start with
\* a double quote, has no whitespace at either end and is not enclosed in single quotes.
C10_PlainValueSurvives ==
    \A i \in DOMAIN calls : \A n \in 1..(Len(calls[i]) - 1) :
        calls[i][n].outcome = "migrated"
        => \A k \in C10_Keys :
            (C10_Scalar(calls[i][n].data, k) /\ C10_Plain(Get(calls[i][n].data, k).v))
            => C10_Same(calls[i][n].data, calls[i][n + 1].data, k)

C10_Witness ==
    \E i \in DOMAIN calls :
        /\ Len(calls[i]) >= 2
        /\ calls[i][1].outcome = "migrated"
        /\ C10_Scalar(calls[i][1].data, <<"t","i","t","l","e">>)
        /\ Get(calls[i][1].data, <<"t","i","t","l","e">>).v = <<"a",":","'">>
        /\ Get(calls[i][2].data, <<"t","i","t","l","e">>).v = <<"a",":","'">>

====
